---------------------------- MODULE Spec2Model ----------------------------
(***************************************************************************)
(* The CSV cleaning and keyword-cannibalization pipeline of                *)
(* keyword_can.py (main, lines 41-163), one action per statement group.    *)
(*                                                                         *)
(* Text (queries, cells of the Impressions column, the branded-terms box)  *)
(* is a sequence of one-character strings, so that split, strip, parsing   *)
(* and string comparison are computed, not assumed.  A float64 is a        *)
(* record of its integer part and of the bits of its fraction, computed    *)
(* by IEEE-754 round-to-nearest-even division and multiplication.          *)
(***************************************************************************)
EXTENDS Integers, Sequences, FiniteSets, TLC

(***************************************************************************)
(* Generic helpers on sequences.                                           *)
(***************************************************************************)
Range(s) == {s[i] : i \in 1..Len(s)}

RECURSIVE SeqSum(_)
SeqSum(s) == IF s = <<>> THEN 0 ELSE Head(s) + SeqSum(Tail(s))

RECURSIVE Concat(_)
Concat(ss) == IF ss = <<>> THEN <<>> ELSE Head(ss) \o Concat(Tail(ss))

\* All sequences over S of length 0..n.
SeqsUpTo(S, n) == UNION {[1..k -> S] : k \in 0..n}

(***************************************************************************)
(* Python str: code-point order, strip, split.                             *)
(***************************************************************************)
\* ord() of the characters the model uses.
Ord(c) ==
    CASE c = " " -> 32
      [] c = "%" -> 37
      [] c = "," -> 44
      [] c = "." -> 46
      [] c = "0" -> 48 [] c = "1" -> 49 [] c = "2" -> 50 [] c = "3" -> 51
      [] c = "4" -> 52 [] c = "5" -> 53 [] c = "6" -> 54 [] c = "7" -> 55
      [] c = "8" -> 56 [] c = "9" -> 57
      [] c = "A" -> 65 [] c = "B" -> 66
      [] c = "a" -> 97 [] c = "b" -> 98 [] c = "c" -> 99
      [] c = "f" -> 102 [] c = "i" -> 105 [] c = "n" -> 110
      [] c = "x" -> 120

\* s < t for Python strings: lexicographic on code points.
RECURSIVE StrLt(_, _)
StrLt(s, t) ==
    IF t = <<>> THEN FALSE
    ELSE IF s = <<>> THEN TRUE
    ELSE IF Head(s) # Head(t) THEN Ord(Head(s)) < Ord(Head(t))
    ELSE StrLt(Tail(s), Tail(t))

RECURSIVE LStrip(_)
LStrip(s) == IF s # <<>> /\ Head(s) = " " THEN LStrip(Tail(s)) ELSE s

RECURSIVE RStrip(_)
RStrip(s) ==
    IF s # <<>> /\ s[Len(s)] = " " THEN RStrip(SubSeq(s, 1, Len(s) - 1)) ELSE s

\* str.strip(): leading and trailing whitespace removed.
Strip(s) == RStrip(LStrip(s))

\* str.split(','): the pieces between commas, empty pieces included.
RECURSIVE SplitComma(_, _)
SplitComma(s, cur) ==
    IF s = <<>> THEN <<cur>>
    ELSE IF Head(s) = "," THEN <<cur>> \o SplitComma(Tail(s), <<>>)
    ELSE SplitComma(Tail(s), Append(cur, Head(s)))

IsNonEmpty(s) == s # <<>>

\* [query.strip() for query in query_to_remove.split(',') if query.strip()]
ParseTerms(text) ==
    LET pieces   == SplitComma(text, <<>>)
        stripped == [i \in 1..Len(pieces) |-> Strip(pieces[i])]
    IN  SelectSeq(stripped, IsNonEmpty)

(***************************************************************************)
(* int <-> str.                                                            *)
(***************************************************************************)
Digits == <<"0", "1", "2", "3", "4", "5", "6", "7", "8", "9">>

IsDigit(c) == c \in Range(Digits)

DigitVal(c) == Ord(c) - 48

\* str(n) for n >= 0.
RECURSIVE IntToStr(_)
IntToStr(n) ==
    IF n < 10 THEN <<Digits[n + 1]>>
    ELSE Append(IntToStr(n \div 10), Digits[(n % 10) + 1])

\* The value of a sequence of decimal digits.
RECURSIVE DigitsVal(_)
DigitsVal(s) ==
    IF s = <<>> THEN 0
    ELSE 10 * DigitsVal(SubSeq(s, 1, Len(s) - 1)) + DigitVal(s[Len(s)])

AllDigits(s) == s # <<>> /\ \A i \in 1..Len(s) : IsDigit(s[i])

(***************************************************************************)
(* float64 arithmetic.  A 53-bit significand does not fit a machine        *)
(* integer of the checker, so it is held in limbs of LimbBits bits (least  *)
(* significant first); every intermediate product stays below 2^31 for     *)
(* operands below 2^12, which covers every total the model produces.       *)
(***************************************************************************)
LimbBits == 18

RECURSIVE Pow2(_)
Pow2(k) == IF k = 0 THEN 1 ELSE 2 * Pow2(k - 1)

Limb == Pow2(LimbBits)

\* Zero bits after the binary point before the first one bit of a/b, 0 < a < b.
LeadingZeros(a, b) == CHOOSE z \in 0..12 : a * Pow2(z) < b /\ b <= a * Pow2(z + 1)

\* Limbs (least significant first) plus a carry into the lowest limb.
AddCarry(x, c) ==
    LET s1 == x[1] + c
        s2 == x[2] + s1 \div Limb
        s3 == x[3] + s2 \div Limb
        s4 == x[4] + s3 \div Limb
    IN  <<s1 % Limb, s2 % Limb, s3 % Limb, s4>>

\* The float64 a / b for integers 0 < a < b, rounded to nearest, ties to even:
\* [sig, z] with value sig * 2^-(54 + z), sig an even number below 2^54 + 1
\* (53 significant bits and a cleared guard bit).
FloatDiv(a, b) ==
    LET z  == LeadingZeros(a, b)
        t2 == a * Pow2(z) * Limb
        t1 == (t2 % b) * Limb
        t0 == (t1 % b) * Limb
        q2 == t2 \div b
        q1 == t1 \div b
        q0 == t0 \div b
        sticky == (t0 % b) # 0
        guard  == q0 % 2
        odd    == (q0 \div 2) % 2 = 1
        up     == guard = 1 /\ (sticky \/ odd)
    IN  [sig |-> AddCarry(<<q0 - guard, q1, q2, 0>>, IF up THEN 2 ELSE 0), z |-> z]

\* The float64 x * 100 for x = FloatDiv(a, b): the exact product is rounded to 53
\* significant bits in place, so the value is sig * 2^-(54 + z) again.
FloatMul100(x) ==
    LET p1 == x.sig[1] * 100
        p2 == x.sig[2] * 100 + p1 \div Limb
        p3 == x.sig[3] * 100 + p2 \div Limb
        p4 == x.sig[4] * 100 + p3 \div Limb
        p  == <<p1 % Limb, p2 % Limb, p3 % Limb, p4>>
        d    == IF p[4] >= 64 THEN 8 ELSE 7
        low  == p[1] % Pow2(d)
        half == Pow2(d - 1)
        odd  == (p[1] \div Pow2(d)) % 2 = 1
        up   == low > half \/ (low = half /\ odd)
    IN  [sig |-> AddCarry(<<p[1] - low, p[2], p[3], p[4]>>, IF up THEN Pow2(d) ELSE 0),
         z |-> x.z]

\* The bits of limb v, most significant first.
LimbBitsOf(v, n) == [i \in 1..n |-> (v \div Pow2(n - i)) % 2]

\* A float64 sig * 2^-(54 + z) as its integer part and the bits of its fraction
\* (after the binary point, trailing zeros dropped).
FloatParts(x) ==
    LET top  == x.sig[4]
        bits == LimbBitsOf(top % Pow2(x.z), x.z) \o LimbBitsOf(x.sig[3], LimbBits)
                  \o LimbBitsOf(x.sig[2], LimbBits) \o LimbBitsOf(x.sig[1], LimbBits)
        ones == {i \in 1..Len(bits) : bits[i] = 1}
        last == IF ones = {} THEN 0 ELSE CHOOSE i \in ones : \A j \in ones : j <= i
    IN  [int |-> top \div Pow2(x.z), frac |-> SubSeq(bits, 1, last)]

\* (Impressions / Total) * 100 in float64, for 0 < imp <= total.
Percent(imp, total) ==
    IF imp = total THEN [int |-> 100, frac |-> <<>>]
    ELSE FloatParts(FloatMul100(FloatDiv(imp, total)))

\* np.ceil(x).astype(int) of a float x >= 0.
Ceil(x) == IF x.frac = <<>> THEN x.int ELSE x.int + 1

\* x > n and x < n for a float x and an integer n.
FloatGt(x, n) == x.int > n \/ (x.int = n /\ x.frac # <<>>)

FloatLt(x, n) == x.int < n

(***************************************************************************)
(* Column names and rows.  A row is a function from column names.          *)
(***************************************************************************)
LP  == "Landing Page"
TKI == "Total Keyword Impressions"
PCT == "Percentage of Impressions"

\* required_columns, line 50.
required_columns == <<"Impressions", "Query", LP>>

\* The column order of line 95.
output_columns == <<LP, "Query", "Impressions", TKI, PCT>>

Row(q, page, imp) == [Query |-> q, Impressions |-> imp] @@ (LP :> page)

Project(r, cols) == [c \in cols |-> r[c]]

SetField(r, c, v) == (c :> v) @@ r

\* The rows of s at the indices Idx, in order: df[mask].
Filter(s, Idx) ==
    LET Nth(k) == CHOOSE i \in Idx : Cardinality({j \in Idx : j < i}) = k - 1
    IN  [k \in 1..Cardinality(Idx) |-> s[Nth(k)]]

(***************************************************************************)
(* pd.to_numeric(errors='coerce') on one cell, and astype(int).            *)
(***************************************************************************)
NaN == [nan |-> TRUE, inf |-> FALSE, int |-> 0]

Inf == [nan |-> FALSE, inf |-> TRUE, int |-> 0]

\* A cell parses as digits, as digits '.' digits (one side may be empty), or as
\* 'inf'; anything else (text, an empty cell) is coerced to NaN.  The record keeps
\* the integer part, which is what astype(int) leaves of a finite value.
ToNumeric(cell) ==
    LET dots == {i \in 1..Len(cell) : cell[i] = "."}
    IN  IF AllDigits(cell)
        THEN [nan |-> FALSE, inf |-> FALSE, int |-> DigitsVal(cell)]
        ELSE IF cell = <<"i", "n", "f">> THEN Inf
        ELSE IF Cardinality(dots) = 1
        THEN LET d == CHOOSE i \in dots : TRUE
                 whole == SubSeq(cell, 1, d - 1)
                 part  == SubSeq(cell, d + 1, Len(cell))
             IN  IF /\ whole = <<>> \/ AllDigits(whole)
                    /\ part = <<>> \/ AllDigits(part)
                    /\ whole \o part # <<>>
                 THEN [nan |-> FALSE, inf |-> FALSE, int |-> DigitsVal(whole)]
                 ELSE NaN
        ELSE NaN

(***************************************************************************)
(* DataFrame.sort_values.  The default kind is quicksort, which promises   *)
(* no order among equal keys: tie_order is the order the build gives them, *)
(* "stable" (input order kept) or "reversed".                              *)
(***************************************************************************)
TieOrders == {"stable", "reversed"}

\* s sorted by the strict order Less (a set of pairs of indices: <<j, i>> when
\* row j's key sorts before row i's), ties broken by tie.
SortValues(s, Less, tie) ==
    LET n == Len(s)
        Tied(j, i) == <<j, i>> \notin Less /\ <<i, j>> \notin Less
        Before(j, i) ==
            \/ <<j, i>> \in Less
            \/ Tied(j, i) /\ (IF tie = "stable" THEN j < i ELSE j > i)
        At(k) == CHOOSE i \in 1..n : Cardinality({j \in 1..n : Before(j, i)}) = k - 1
    IN  [k \in 1..n |-> s[At(k)]]

\* df.sort_values(by=col, ascending=False) for an integer column.
SortDescAscending(df, col, tie) ==
    LET n == Len(df)
        Less == {p \in (1..n) \X (1..n) : df[p[1]][col] < df[p[2]][col]}
    IN  SortValues(df, Less, tie)

SortDesc(df, col, tie) ==
    LET n == Len(df)
        Less == {p \in (1..n) \X (1..n) : df[p[1]][col] > df[p[2]][col]}
    IN  SortValues(df, Less, tie)

\* df.sort_values(by='Query').
SortByQuery(df, tie) ==
    LET n == Len(df)
        Less == {p \in (1..n) \X (1..n) : StrLt(df[p[1]].Query, df[p[2]].Query)}
    IN  SortValues(df, Less, tie)

(***************************************************************************)
(* groupby, merge, drop_duplicates.                                        *)
(***************************************************************************)
\* The distinct queries of df in ascending order: the group keys of
\* df.groupby('Query'), which sorts them.
GroupKeys(df) ==
    LET keys == {df[i].Query : i \in 1..Len(df)}
        At(k) == CHOOSE q \in keys : Cardinality({p \in keys : StrLt(p, q)}) = k - 1
    IN  [k \in 1..Cardinality(keys) |-> At(k)]

RowsOf(df, q) == LET Same == {i \in 1..Len(df) : df[i].Query = q} IN Filter(df, Same)

\* df.groupby('Query')['Impressions'].sum().reset_index(), columns renamed.
GroupSum(df) ==
    LET keys == GroupKeys(df)
    IN  [k \in 1..Len(keys) |->
            LET rows == RowsOf(df, keys[k])
            IN  (TKI :> SeqSum([i \in 1..Len(rows) |-> rows[i].Impressions]))
                  @@ [Query |-> keys[k]]]

\* pd.merge(df, totals, on='Query', how='left'): left order kept.
MergeTotals(df, totals) ==
    [i \in 1..Len(df) |->
        LET t == CHOOSE k \in 1..Len(totals) : totals[k].Query = df[i].Query
        IN  df[i] @@ (TKI :> totals[t][TKI])]

SamePair(r, u) == r.Query = u.Query /\ r[LP] = u[LP]

\* df.drop_duplicates(subset=['Query', 'Landing Page']): the first row of each
\* pair is kept.
DropDuplicatesKeepLast(df) ==
    LET First == {i \in 1..Len(df) : \A j \in (i + 1)..Len(df) : ~SamePair(df[j], df[i])}
    IN  Filter(df, First)

DropDuplicates(df) ==
    LET First == {i \in 1..Len(df) : \A j \in 1..(i - 1) : ~SamePair(df[j], df[i])}
    IN  Filter(df, First)

(***************************************************************************)
(* The state: the form's two inputs, the position in main, the locals.     *)
(***************************************************************************)
VARIABLES
    uploaded_file,     \* the CSV: [columns, rows], cells as text
    query_to_remove,   \* the text of the branded-terms box
    tie_order,         \* how this build's sort orders equal keys
    pc,                \* the statement group main is about to run
    df,                \* the DataFrame
    counts,            \* the integer locals assigned so far, by name
    queries_to_remove, \* line 69 / 73
    missing_columns,   \* line 51
    df_unsorted,       \* df as line 95 left it, before the sorts of 98 and 104
    top_cannibalized,  \* line 113
    screen             \* what the page shows: [status, table, chart]

vars == <<uploaded_file, query_to_remove, tie_order, pc, df, counts,
          queries_to_remove, missing_columns, df_unsorted, top_cannibalized, screen>>

inputs == <<uploaded_file, query_to_remove, tie_order>>

NoTable == <<"no table">>

Blank == [status |-> "running", table |-> NoTable, chart |-> "none"]

\* Program constants.
ImpressionFloor == 10
ShareLow == 10
ShareHigh == 75
TopN == 10

(***************************************************************************)
(* Inputs.  Each family of files exercises one part of the pipeline.       *)
(***************************************************************************)
MaxRowsCells == 2
MaxText == 3
MaxRowsAgg == 3
MaxRowsOrder == 4
RankQueries == 11
RankSingles == 3

RequiredSet == Range(required_columns)

\* Files whose header lacks columns (or has one more), with at most one row.
SchemaFiles ==
    {[columns |-> cols,
      rows |-> [i \in 1..n |-> Project(Row(<<"a">>, "/x", <<"1", "4">>) @@ [Clicks |-> 3], cols)]] :
        cols \in SUBSET (RequiredSet \cup {"Clicks"}), n \in 0..1}
      \ {[columns |-> {}, rows |-> <<<<>>>>]}

\* Cells of the Impressions column: text, empty, below the floor, above it,
\* a decimal, infinity.
Cells == {<<"x">>, <<>>, <<"5">>, <<"1", "4">>, <<"1", "0", ".", "9">>, <<"i", "n", "f">>}

CellsRows == {Row(<<"a">>, "/x", c) : c \in Cells}
               \cup {Row(<<"a", "b">>, "/x", c) : c \in {<<"5">>, <<"1", "4">>}}

\* Queries equal to the term "a", differing in case, and containing it.
TermsQueries == <<<<"a">>, <<"A">>, <<"a", "b">>>>

TermsFiles ==
    {[columns |-> RequiredSet,
      rows |-> [i \in 1..Len(qs) |-> Row(qs[i], "/x", <<"2", "0">>)]] :
        qs \in {<<>>, TermsQueries} \cup {<<TermsQueries[k]>> : k \in 1..3}}

TermsTexts == SeqsUpTo({"a", "A", ",", " "}, MaxText) \cup {<<"a", "b">>, <<"A", ",", "a", "b">>}

AggRows == {Row(<<"a">>, page, c) : page \in {"/x", "/y"}, c \in {<<"1", "1">>, <<"1", "4">>}}
             \cup {Row(<<"b">>, "/x", c) : c \in {<<"1", "1">>, <<"1", "4">>}}

OrderRows == {Row(q, page, <<"5", "0">>) : q \in {<<"a">>, <<"b">>}, page \in {"/x", "/y"}}

\* The queries of the ranking family: "a", "b", "A", "aa", "ab", ...
RankNames ==
    LET L == <<"a", "b", "A">>
    IN  [k \in 1..12 |-> IF k <= 3 THEN <<L[k]>>
                         ELSE <<L[((k - 4) \div 3) + 1], L[((k - 4) % 3) + 1]>>]

\* Query k of the ranking family has two pages with 20 + (k + 1) \div 2
\* impressions each (so neighbours tie on the total), or one page only.
RankRows(k, single) ==
    LET q == RankNames[((k - 1) % 12) + 1] \o (IF k > 12 THEN <<"x">> ELSE <<>>)
        c == IntToStr(20 + (k + 1) \div 2)
    IN  IF single THEN <<Row(q, "/x", c)>> ELSE <<Row(q, "/x", c), Row(q, "/y", c)>>

RankFiles ==
    {[columns |-> RequiredSet,
      rows |-> Concat([k \in 1..RankQueries |-> RankRows(k, k \in S)])] :
        S \in SUBSET (1..RankSingles)}

Files(rows, n) == {[columns |-> RequiredSet, rows |-> r] : r \in SeqsUpTo(rows, n)}

InitSchema ==
    /\ uploaded_file \in SchemaFiles
    /\ query_to_remove \in {<<>>, <<"a">>}

InitCells ==
    /\ uploaded_file \in Files(CellsRows, MaxRowsCells)
    /\ query_to_remove \in {<<>>, <<"a">>}

InitTerms ==
    /\ uploaded_file \in TermsFiles
    /\ query_to_remove \in TermsTexts

InitAgg ==
    /\ uploaded_file \in Files(AggRows, MaxRowsAgg)
    /\ query_to_remove \in {<<>>}

InitOrder ==
    /\ uploaded_file \in Files(OrderRows, MaxRowsOrder)
    /\ query_to_remove \in {<<>>}

InitRank ==
    /\ uploaded_file \in RankFiles
    /\ query_to_remove \in {<<>>, <<"a", "a">>}

Init ==
    /\ InitSchema \/ InitCells \/ InitTerms \/ InitAgg \/ InitOrder \/ InitRank
    /\ tie_order \in TieOrders
    /\ pc = "read_csv"
    /\ df = <<>>
    /\ counts = <<>>
    /\ queries_to_remove = <<>>
    /\ missing_columns = <<>>
    /\ df_unsorted = <<>>
    /\ top_cannibalized = <<>>
    /\ screen = Blank

(***************************************************************************)
(* main, after the form is submitted with a file (lines 41-163).           *)
(***************************************************************************)
Stop(status) == /\ pc' = "done"
                /\ screen' = [screen EXCEPT !.status = status]

\* Line 47: pd.read_csv; a file with no columns raises EmptyDataError (156-157).
ReadCsv ==
    /\ pc = "read_csv"
    /\ IF uploaded_file.columns = {}
       THEN /\ Stop("empty_file")
            /\ UNCHANGED df
       ELSE /\ df' = uploaded_file.rows
            /\ pc' = "validate"
            /\ UNCHANGED screen
    /\ UNCHANGED <<inputs, counts, queries_to_remove, missing_columns, df_unsorted,
                   top_cannibalized>>

\* [col for col in required_columns if col not in df.columns]
MissingColumnsAll(columns) == required_columns

MissingColumns(columns) ==
    LET Absent(c) == c \notin columns IN SelectSeq(required_columns, Absent)

\* Lines 49-54: st.error with the missing columns, then st.stop().
Validate ==
    /\ pc = "validate"
    /\ missing_columns' = MissingColumns(uploaded_file.columns)
    /\ IF missing_columns' # <<>>
       THEN Stop("missing_columns")
       ELSE pc' = "normalize" /\ UNCHANGED screen
    /\ UNCHANGED <<inputs, df, counts, queries_to_remove, df_unsorted, top_cannibalized>>

\* df.dropna(subset=['Impressions']) after to_numeric.
DropNaKeepAll(rows) == rows

DropNa(rows) ==
    LET Numeric == {i \in 1..Len(rows) : ~ToNumeric(rows[i].Impressions).nan}
    IN  Filter(rows, Numeric)

\* Lines 56-62.  astype(int) raises on a non-finite value, which line 160 catches;
\* line 62 is then not reached.
Normalize ==
    /\ pc = "normalize"
    /\ LET kept == DropNa(df)
           num  == [i \in 1..Len(kept) |-> ToNumeric(kept[i].Impressions)]
       IN  IF \E i \in 1..Len(kept) : num[i].inf
           THEN /\ Stop("unexpected_error")
                /\ df' = [i \in 1..Len(kept) |-> SetField(kept[i], "Impressions", num[i])]
                /\ counts' = counts @@ [initial_row_count |-> Len(df)]
           ELSE /\ df' = [i \in 1..Len(kept) |-> SetField(kept[i], "Impressions", num[i].int)]
                /\ counts' = counts @@ [initial_row_count |-> Len(df),
                                        dropped_non_numeric |-> Len(df) - Len(kept)]
                /\ pc' = "sort_impressions"
                /\ UNCHANGED screen
    /\ UNCHANGED <<inputs, queries_to_remove, missing_columns, df_unsorted, top_cannibalized>>

\* Lines 64-65.
SortImpressions ==
    /\ pc = "sort_impressions"
    /\ df' = SortDesc(df, "Impressions", tie_order)
    /\ pc' = "exclude"
    /\ UNCHANGED <<inputs, counts, queries_to_remove, missing_columns, df_unsorted,
                   top_cannibalized, screen>>

\* df[~df['Query'].isin(terms)]
ExcludeSubstring(rows, terms) ==
    LET Contains(q, t) == \E i \in 0..(Len(q) - Len(t)) : SubSeq(q, i + 1, i + Len(t)) = t
        Kept == {i \in 1..Len(rows) :
                    \A k \in 1..Len(terms) : ~Contains(rows[i].Query, terms[k])}
    IN  Filter(rows, Kept)

Exclude(rows, terms) ==
    LET Kept == {i \in 1..Len(rows) : rows[i].Query \notin Range(terms)}
    IN  Filter(rows, Kept)

\* Lines 67-73.
ExcludeBranded ==
    /\ pc = "exclude"
    /\ queries_to_remove' = IF query_to_remove # <<>> THEN ParseTerms(query_to_remove)
                            ELSE <<>>
    /\ df' = IF queries_to_remove' # <<>> THEN Exclude(df, queries_to_remove') ELSE df
    /\ pc' = "floor"
    /\ UNCHANGED <<inputs, counts, missing_columns, df_unsorted, top_cannibalized, screen>>

\* df[df['Impressions'] >= 10]
AtLeastFloorStrict(rows) ==
    LET Kept == {i \in 1..Len(rows) : rows[i].Impressions > ImpressionFloor}
    IN  Filter(rows, Kept)

AtLeastFloor(rows) ==
    LET Kept == {i \in 1..Len(rows) : rows[i].Impressions >= ImpressionFloor}
    IN  Filter(rows, Kept)

\* Lines 75-78.
DropLowImpressions ==
    /\ pc = "floor"
    /\ df' = AtLeastFloor(df)
    /\ counts' = counts @@ [before_filter |-> Len(df),
                            dropped_low_impressions |-> Len(df) - Len(df')]
    /\ pc' = "totals"
    /\ UNCHANGED <<inputs, queries_to_remove, missing_columns, df_unsorted,
                   top_cannibalized, screen>>

\* Lines 80-83.
WithTotalsAfterDedup(rows) == MergeTotals(rows, GroupSum(DropDuplicates(rows)))

WithTotals(rows) == MergeTotals(rows, GroupSum(rows))

TotalImpressions ==
    /\ pc = "totals"
    /\ df' = WithTotals(df)
    /\ pc' = "percentage"
    /\ UNCHANGED <<inputs, counts, queries_to_remove, missing_columns, df_unsorted,
                   top_cannibalized, screen>>

\* Lines 85-86.
Percentage ==
    /\ pc = "percentage"
    /\ df' = [i \in 1..Len(df) |-> df[i] @@ (PCT :> Percent(df[i].Impressions, df[i][TKI]))]
    /\ pc' = "drop_duplicates"
    /\ UNCHANGED <<inputs, counts, queries_to_remove, missing_columns, df_unsorted,
                   top_cannibalized, screen>>

\* Lines 88-89.
DropDuplicatePairs ==
    /\ pc = "drop_duplicates"
    /\ df' = DropDuplicates(df)
    /\ pc' = "band"
    /\ UNCHANGED <<inputs, counts, queries_to_remove, missing_columns, df_unsorted,
                   top_cannibalized, screen>>

\* (df[PCT] > 10) & (df[PCT] < 75)
InBand(rows) ==
    LET Kept == {i \in 1..Len(rows) :
                    FloatGt(rows[i][PCT], ShareLow) /\ FloatLt(rows[i][PCT], ShareHigh)}
    IN  Filter(rows, Kept)

\* Lines 91-92.
BandFilter ==
    /\ pc = "band"
    /\ df' = InBand(df)
    /\ pc' = "sort_query"
    /\ UNCHANGED <<inputs, counts, queries_to_remove, missing_columns, df_unsorted,
                   top_cannibalized, screen>>

\* Lines 94-98: the five columns, then the alphabetical sort.
SortQuery ==
    /\ pc = "sort_query"
    /\ df_unsorted' = [i \in 1..Len(df) |-> Project(df[i], Range(output_columns))]
    /\ df' = SortByQuery(df_unsorted', tie_order)
    /\ pc' = "round_up"
    /\ UNCHANGED <<inputs, counts, queries_to_remove, missing_columns, top_cannibalized,
                   screen>>

\* np.ceil(x).astype(int).astype(str) + '%'
Display(x) == Append(IntToStr(Ceil(x)), "%")

RoundedUp(rows) == [i \in 1..Len(rows) |-> SetField(rows[i], PCT, Display(rows[i][PCT]))]

\* Lines 100-101.
RoundUp ==
    /\ pc = "round_up"
    /\ df' = RoundedUp(df)
    /\ pc' = "final_sort"
    /\ UNCHANGED <<inputs, counts, queries_to_remove, missing_columns, df_unsorted,
                   top_cannibalized, screen>>

\* Lines 103-104.
FinalSort ==
    /\ pc = "final_sort"
    /\ df' = SortDesc(df, TKI, tie_order)
    /\ pc' = "rank"
    /\ UNCHANGED <<inputs, counts, queries_to_remove, missing_columns, df_unsorted,
                   top_cannibalized, screen>>

\* head(n)
Head_(s, n) == SubSeq(s, 1, IF Len(s) < n THEN Len(s) ELSE n)

\* Lines 108-111: per query, the number of distinct landing pages and the first
\* total, in ascending order of the query.
Cannibalization(rows) ==
    LET keys == GroupKeys(rows)
    IN  [k \in 1..Len(keys) |->
            LET g == RowsOf(rows, keys[k])
            IN  (LP :> Cardinality({g[i][LP] : i \in 1..Len(g)}))
                  @@ (TKI :> g[1][TKI]) @@ [Query |-> keys[k]]]

\* Lines 112-113.
TopCannibalizedAnyPages(rows, tie) == Head_(SortDesc(Cannibalization(rows), TKI, tie), TopN)

TopCannibalized(rows, tie) ==
    LET all  == Cannibalization(rows)
        Multi == {i \in 1..Len(all) : all[i][LP] > 1}
    IN  Head_(SortDesc(Filter(all, Multi), TKI, tie), TopN)

\* Lines 106-113.
Rank ==
    /\ pc = "rank"
    /\ top_cannibalized' = TopCannibalized(df, tie_order)
    /\ pc' = "show"
    /\ UNCHANGED <<inputs, df, counts, queries_to_remove, missing_columns, df_unsorted,
                   screen>>

\* Lines 115-154: the success message, the table, the chart or the note that
\* no cannibalized keyword was found.
Show ==
    /\ pc = "show"
    /\ screen' = [status |-> "success", table |-> df,
                  chart |-> IF top_cannibalized # <<>> THEN "chart" ELSE "none_found"]
    /\ pc' = "done"
    /\ UNCHANGED <<inputs, df, counts, queries_to_remove, missing_columns, df_unsorted,
                   top_cannibalized>>

Next ==
    \/ ReadCsv
    \/ Validate
    \/ Normalize
    \/ SortImpressions
    \/ ExcludeBranded
    \/ DropLowImpressions
    \/ TotalImpressions
    \/ Percentage
    \/ DropDuplicatePairs
    \/ BandFilter
    \/ SortQuery
    \/ RoundUp
    \/ FinalSort
    \/ Rank
    \/ Show

Spec == Init /\ [][Next]_vars

(***************************************************************************)
(* What the claims speak of, read off the inputs alone.                    *)
(***************************************************************************)
RawRows == uploaded_file.rows

Complete == RequiredSet \subseteq uploaded_file.columns

\* The cells of the model that are no number: text and the empty cell.
UnparsableCells == {<<"x">>, <<>>}

Unparsable(i) == RawRows[i].Impressions \in UnparsableCells

NumUnparsable == Cardinality({i \in 1..Len(RawRows) : Unparsable(i)})

\* The integer a parsable cell stands for.
Value(i) == ToNumeric(RawRows[i].Impressions).int

\* t is one of the exclusion terms: a comma-free piece of the text between two
\* commas (or the ends), less the spaces around it, and not empty.
IsTerm(t) ==
    LET text == query_to_remove
        n    == Len(text)
    IN  /\ t # <<>>
        /\ t[1] # " " /\ t[Len(t)] # " "
        /\ \E i \in 1..n : \E j \in i..n :
              /\ i = 1 \/ text[i - 1] = ","
              /\ j = n \/ text[j + 1] = ","
              /\ \A k \in i..j : text[k] # ","
              /\ \E a \in i..j :
                    /\ a + Len(t) - 1 <= j
                    /\ SubSeq(text, a, a + Len(t) - 1) = t
                    /\ \A k \in i..(a - 1) : text[k] = " "
                    /\ \A k \in (a + Len(t))..j : text[k] = " "

Excluded(i) == ~Unparsable(i) /\ IsTerm(RawRows[i].Query)

BelowFloor(i) == ~Unparsable(i) /\ ~IsTerm(RawRows[i].Query) /\ Value(i) < ImpressionFloor

\* Row i of the file survives exclusion and the impression floor.
Survives(i) == ~Unparsable(i) /\ ~IsTerm(RawRows[i].Query) /\ Value(i) >= ImpressionFloor

SurvivorTotal(q) ==
    SeqSum([i \in 1..Len(RawRows) |->
              IF Survives(i) /\ RawRows[i].Query = q THEN Value(i) ELSE 0])

Finished == pc = "done"

Success == pc = "done" /\ screen.status = "success"

Table == screen.table

CeilDiv(a, b) == (a + b - 1) \div b

\* The queries with at least two distinct landing pages in the final table.
Qualifying ==
    {q \in {df[i].Query : i \in 1..Len(df)} :
        Cardinality({df[i][LP] : i \in {j \in 1..Len(df) : df[j].Query = q}}) >= 2}

Min(a, b) == IF a < b THEN a ELSE b

(***************************************************************************)
(* The claims.                                                             *)
(***************************************************************************)

\* C1: when the file lacks a required column the run ends with the schema error
\* whose message lists exactly the missing required columns, and no row has been
\* coerced, filtered or aggregated: the DataFrame is the file as read, there is
\* no count, no ranking and no table on the page.
C1_SchemaError ==
    (uploaded_file.columns # {} /\ ~Complete) =>
        /\ pc \in {"read_csv", "validate", "done"}
        /\ counts = <<>> /\ top_cannibalized = <<>> /\ screen.table = NoTable
        /\ df \in {<<>>, RawRows}
        /\ Finished =>
              /\ screen.status = "missing_columns"
              /\ Range(missing_columns) = RequiredSet \ uploaded_file.columns
              /\ Len(missing_columns) = Cardinality(RequiredSet \ uploaded_file.columns)

C1_Witness ==
    /\ Finished /\ screen.status = "missing_columns"
    /\ Len(missing_columns) = 2 /\ Len(RawRows) = 1

\* C2: the exclusion step removes a row if and only if its Query equals one of the
\* exclusion terms; the rows it keeps stay in order.
C2_ExactMatch ==
    [][pc = "exclude" =>
         df' = Filter(df, {i \in 1..Len(df) : ~IsTerm(df[i].Query)})]_vars

\* With the term "a", the row of query "a" is gone and the row of "ab" is kept.
C2_Witness ==
    /\ pc = "floor" /\ queries_to_remove = <<<<"a">>>>
    /\ \E i \in 1..Len(RawRows) : RawRows[i].Query = <<"a">> /\ ~Unparsable(i)
    /\ df # <<>> /\ \A i \in 1..Len(df) : df[i].Query = <<"a", "b">>

\* C3: on every row of the final table the total is the sum of Impressions over
\* all rows of the file with that query that survived exclusion and the floor,
\* duplicates of a (Query, Landing Page) pair included.
C3_TotalIsPreDedupSum ==
    Success => \A i \in 1..Len(Table) : Table[i][TKI] = SurvivorTotal(Table[i].Query)

\* A final table with a row whose pair occurs twice among the surviving rows.
C3_Witness ==
    /\ Success
    /\ \E k \in 1..Len(Table) : \E i, j \in 1..Len(RawRows) :
          /\ i < j /\ Survives(i) /\ Survives(j)
          /\ SamePair(RawRows[i], Table[k]) /\ SamePair(RawRows[j], Table[k])

\* C4: every row of the final table shows ceil(Impressions / Total x 100) followed
\* by '%', an integer from 11 to 75.
C4_DisplayedCeiling ==
    Success => \A i \in 1..Len(Table) :
        LET shown == CeilDiv(100 * Table[i].Impressions, Table[i][TKI])
        IN  /\ Table[i][PCT] = Append(IntToStr(shown), "%")
            /\ shown \in 11..75

\* C5: a (Query, Landing Page) pair is in at most one row of the final table, and
\* that row carries the largest Impressions among the surviving rows of the pair.
C5_DedupKeepsFirst ==
    Success => \A k \in 1..Len(Table) :
        /\ \A m \in 1..Len(Table) : SamePair(Table[m], Table[k]) => m = k
        /\ \A i \in 1..Len(RawRows) :
              (Survives(i) /\ SamePair(RawRows[i], Table[k]))
                  => Value(i) <= Table[k].Impressions
        /\ \E i \in 1..Len(RawRows) :
              Survives(i) /\ SamePair(RawRows[i], Table[k])
                /\ Value(i) = Table[k].Impressions

\* A final table with a row whose pair survived with two different Impressions.
C5_Witness ==
    /\ Success
    /\ \E k \in 1..Len(Table) : \E i, j \in 1..Len(RawRows) :
          /\ Survives(i) /\ Survives(j) /\ Value(i) < Value(j)
          /\ SamePair(RawRows[i], Table[k]) /\ SamePair(RawRows[j], Table[k])

\* C6: the ranking lists only queries with at least two distinct landing pages in
\* the final table, each once, with its number of pages and its total; totals do
\* not increase along it; it has min(10, number of such queries) entries; and no
\* such query left out has a larger total than one listed.
C6_Ranking ==
    Success =>
        LET top == top_cannibalized
            n   == Len(top)
            TotalOf(q) == df[CHOOSE i \in 1..Len(df) : df[i].Query = q][TKI]
            PagesOf(q) == {df[i][LP] : i \in {j \in 1..Len(df) : df[j].Query = q}}
        IN  /\ df = Table
            /\ \A k \in 1..n :
                  /\ top[k].Query \in Qualifying
                  /\ top[k][LP] = Cardinality(PagesOf(top[k].Query))
                  /\ top[k][TKI] = TotalOf(top[k].Query)
            /\ \A k, m \in 1..n : top[k].Query = top[m].Query => k = m
            /\ \A k \in 1..(n - 1) : top[k][TKI] >= top[k + 1][TKI]
            /\ n = Min(TopN, Cardinality(Qualifying))
            /\ \A q \in Qualifying :
                  (\A k \in 1..n : top[k].Query # q) => TotalOf(q) <= top[n][TKI]

\* More than ten queries qualify and ten are listed.
C6_Witness ==
    /\ Success /\ Cardinality(Qualifying) > TopN /\ Len(top_cannibalized) = TopN

\* C7: once a file has passed validation, the rows with an unparsable Impressions
\* cell are dropped, the others are kept, and the count of non-numeric drops is
\* the number of unparsable rows of the file.
C7_NonNumericDropped ==
    (Complete /\ pc \notin {"read_csv", "validate", "normalize"}) =>
        /\ "dropped_non_numeric" \in DOMAIN counts
        /\ counts.dropped_non_numeric = NumUnparsable
        /\ pc = "sort_impressions" =>
              LET Parsable == {i \in 1..Len(RawRows) : ~Unparsable(i)}
                  kept == Filter(RawRows, Parsable)
              IN  /\ Len(df) = Len(kept)
                  /\ \A i \in 1..Len(df) : SamePair(df[i], kept[i])

\* C8 as stated: the filter stage yields a count equal to the number of rows
\* removed for matching an exclusion term, beside the count of rows removed by
\* the impression floor.
FilterStageCounts == DOMAIN counts \ {"initial_row_count", "dropped_non_numeric"}

NumExcluded == Cardinality({i \in 1..Len(RawRows) : Excluded(i)})

NumBelowFloor == Cardinality({i \in 1..Len(RawRows) : BelowFloor(i)})

AfterFloor == Complete /\ "dropped_low_impressions" \in DOMAIN counts

C8_TwoCounts ==
    AfterFloor =>
        /\ counts.dropped_low_impressions = NumBelowFloor
        /\ \E c \in FilterStageCounts \ {"dropped_low_impressions"} :
              counts[c] = NumExcluded

\* C8 as amended: the stage assigns two integers, before_filter (the rows left
\* after exclusion) and dropped_low_impressions (the rows the floor removed among
\* them); the number of rows removed by exclusion is no count of its own, it is
\* only the difference between the rows left by the normalizer and before_filter.
C8_FloorCountOnly ==
    AfterFloor =>
        /\ FilterStageCounts = {"before_filter", "dropped_low_impressions"}
        /\ counts.dropped_low_impressions = NumBelowFloor
        /\ counts.before_filter =
              counts.initial_row_count - counts.dropped_non_numeric - NumExcluded

\* Rows were removed by exclusion and by the floor, in different numbers.
C8_Witness ==
    /\ AfterFloor /\ NumExcluded = 1 /\ NumBelowFloor = 1
    /\ counts.before_filter = 1

\* C9 as stated: a file with the required columns and no usable row ends in an
\* error outcome of its own, neither the schema error nor success, and no table
\* is shown.
ZeroUsable == Complete /\ \A i \in 1..Len(RawRows) : Unparsable(i)

C9_EmptyInputError ==
    (Finished /\ ZeroUsable) =>
        /\ screen.status \notin {"success", "missing_columns", "running"}
        /\ screen.table = NoTable

\* C9 as amended: such a file runs through the whole pipeline: the run succeeds
\* with an empty table and the note that no cannibalized keyword was found, every
\* row counted as a non-numeric drop.  The empty-file error is for a file with no
\* columns at all.
C9_EmptySucceeds ==
    /\ (Finished /\ ZeroUsable) =>
          /\ screen = [status |-> "success", table |-> <<>>, chart |-> "none_found"]
          /\ counts.dropped_non_numeric = Len(RawRows)
          /\ top_cannibalized = <<>>
    /\ (Finished /\ screen.status = "empty_file") => uploaded_file.columns = {}

C9_Witness ==
    /\ Finished /\ ZeroUsable /\ Len(RawRows) = 2
    /\ screen.status = "success"

\* C10 as stated: the final table is in non-increasing order of the total and is
\* the very sequence of rows the pipeline gives when the alphabetical sort of
\* line 98 is skipped (stated for the build whose sort keeps equal keys in input
\* order, where skipping a sort is a well-defined comparison).
NonIncreasing(rows) == \A i \in 1..(Len(rows) - 1) : rows[i][TKI] >= rows[i + 1][TKI]

WithoutQuerySort == SortDesc(RoundedUp(df_unsorted), TKI, tie_order)

C10_QuerySortInert ==
    (Success /\ tie_order = "stable") => NonIncreasing(Table) /\ Table = WithoutQuerySort

\* C10 as amended: the final table is in non-increasing order of the total and
\* holds the same rows with or without the alphabetical sort; the order of rows
\* with equal totals is the sort's tie order applied to the alphabetical order,
\* so under a stable sort such rows come in ascending order of Query.
C10_OrderedByTotal ==
    Success =>
        /\ NonIncreasing(Table)
        /\ Len(Table) = Len(WithoutQuerySort)
        /\ Range(Table) = Range(WithoutQuerySort)
        /\ tie_order = "stable" =>
              \A i \in 1..(Len(Table) - 1) :
                  Table[i][TKI] = Table[i + 1][TKI]
                      => ~StrLt(Table[i + 1].Query, Table[i].Query)

\* Two queries with equal totals whose rows come in another order when the
\* alphabetical sort is skipped.
C10_Witness ==
    /\ Success /\ tie_order = "stable"
    /\ Table # WithoutQuerySort
    /\ \E i \in 1..(Len(Table) - 1) :
          Table[i][TKI] = Table[i + 1][TKI] /\ Table[i].Query # Table[i + 1].Query

=============================================================================
